---- MODULE Spec2Model ----
(***************************************************************************)
(* QuickResizer: the image pipeline of src/image_processing.py and its     *)
(* caller in src/app.py.                                                   *)
(*                                                                         *)
(* Python floats are IEEE-754 binary64.  The geometry code multiplies and  *)
(* divides pixel counts by float ratios and truncates with int(), so the   *)
(* model carries a bit-exact binary64 arithmetic for the positive values   *)
(* that occur: a float is a 53-bit mantissa (four limbs of 14 bits, the     *)
(* least significant first) and an exponent; every operation rounds to     *)
(* nearest, ties to even.                                                  *)
(***************************************************************************)
EXTENDS Integers, Sequences, FiniteSets, TLC

(***************************************************************************)
(* Bounds of the model: source sides 1..MaxSrc (plus the sides SpecialDims *)
(* names), custom target sides 0..MaxCustom, batches of at most MaxBatch   *)
(* items, 1-based indices up to MaxIndex (plus SpecialIndex).              *)
(***************************************************************************)
MaxSrc == 3
MaxCustom == 3
MaxBatch == 3
MaxIndex == 2

\* Python's None and a present value: an optional value is a sequence of at
\* most one element
None == <<>>
Some(v) == <<v>>
Val(o) == o[1]

(***************************************************************************)
(* binary64 arithmetic.  A float x > 0 is [m |-> <<l1, l2, l3, l4>>, e]    *)
(* with mantissa M = l1 + l2*2^14 + l3*2^28 + l4*2^42, 2^52 <= M < 2^53,   *)
(* and value M * 2^(e - 52).  Zero has the empty mantissa.                 *)
(***************************************************************************)
LimbBase == 2^14

TopOne == 2^10

FZero == [m |-> <<>>, e |-> 0]

IsZero(x) == x.m = <<>>

\* number of binary digits of n, 1 <= n < 2^30
BitLen(n) == CHOOSE k \in 1..30 : 2^(k - 1) <= n /\ n < 2^k

\* round-to-nearest-even of a 53-bit mantissa, given the guard bit and the
\* sticky flag of what was cut off below it
RoundMant(m, e, guard, sticky) ==
    IF guard = 1 /\ (sticky \/ m[1] % 2 = 1)
    THEN LET i1 == m[1] + 1
             i2 == m[2] + i1 \div LimbBase
             i3 == m[3] + i2 \div LimbBase
             i4 == m[4] + i3 \div LimbBase
         IN  IF i4 = 2 * TopOne
             THEN [m |-> <<0, 0, 0, TopOne>>, e |-> e + 1]
             ELSE [m |-> <<i1 % LimbBase, i2 % LimbBase, i3 % LimbBase, i4>>,
                   e |-> e]
    ELSE [m |-> m, e |-> e]

\* <<a', b', e>> with b' <= a' < 2 b' and a/b = (a'/b') * 2^e
Normalize(a, b) ==
    LET d == BitLen(a) - BitLen(b)
        e == IF d >= 0
             THEN (IF a >= b * 2^d THEN d ELSE d - 1)
             ELSE (IF a * 2^(-d) >= b THEN d ELSE d - 1)
    IN  IF e >= 0 THEN <<a, b * 2^e, e>> ELSE <<a * 2^(-e), b, e>>

\* the float a / b for integers 0 <= a < 2^15, 1 <= b < 2^15
FDiv(a, b) ==
    IF a = 0 THEN FZero
    ELSE LET n == Normalize(a, b)
             bb == n[2]
             t4 == (n[1] - bb) * TopOne
             t3 == (t4 % bb) * LimbBase
             t2 == (t3 % bb) * LimbBase
             t1 == (t2 % bb) * LimbBase
             r == t1 % bb
             guard == IF 2 * r >= bb THEN 1 ELSE 0
             sticky == 2 * r - guard * bb # 0
         IN  RoundMant(<<t1 \div bb, t2 \div bb, t3 \div bb, TopOne + t4 \div bb>>,
                       n[3], guard, sticky)

\* the float c * x for an integer 1 <= c < 2^15 and a float x >= 0
FMulInt(c, x) ==
    IF IsZero(x) THEN FZero
    ELSE LET t1 == c * x.m[1]
             t2 == c * x.m[2] + t1 \div LimbBase
             t3 == c * x.m[3] + t2 \div LimbBase
             t4 == c * x.m[4] + t3 \div LimbBase
             p1 == t1 % LimbBase
             p2 == t2 % LimbBase
             p3 == t3 % LimbBase
             k == BitLen(t4) - 11
             lo == 2^k
             up == 2^(14 - k)
             cut == p1 % lo
         IN  IF k = 0 THEN [m |-> <<p1, p2, p3, t4>>, e |-> x.e]
             ELSE RoundMant(<< (p2 % lo) * up + p1 \div lo,
                               (p3 % lo) * up + p2 \div lo,
                               (t4 % lo) * up + p3 \div lo,
                               t4 \div lo >>,
                            x.e + k, cut \div 2^(k - 1), cut % 2^(k - 1) # 0)

\* x < y for floats x, y >= 0
FLess(x, y) ==
    IF IsZero(y) THEN FALSE
    ELSE IF IsZero(x) THEN TRUE
    ELSE IF x.e # y.e THEN x.e < y.e
    ELSE \E i \in 1..4 :
            /\ x.m[i] < y.m[i]
            /\ \A j \in (i + 1)..4 : x.m[j] = y.m[j]

\* Python's min(x, y): y only when it is strictly smaller
FMin(x, y) == IF FLess(y, x) THEN y ELSE x

\* Python's int(x) for a float 0 <= x < 2^25: truncation
Trunc(x) ==
    IF IsZero(x) \/ x.e < 0 THEN 0
    ELSE IF x.e <= 10 THEN x.m[4] \div 2^(10 - x.e)
    ELSE x.m[4] * 2^(x.e - 10) + x.m[3] \div 2^(24 - x.e)

(***************************************************************************)
(* Dividing an integer by a float: long division by the 53-bit mantissa on *)
(* wide integers (four limbs of 14 bits, least significant first).         *)
(***************************************************************************)
WDouble(x) ==
    LET d1 == 2 * x[1]
        d2 == 2 * x[2] + d1 \div LimbBase
        d3 == 2 * x[3] + d2 \div LimbBase
        d4 == 2 * x[4] + d3 \div LimbBase
    IN  << d1 % LimbBase, d2 % LimbBase, d3 % LimbBase, d4 >>

WGeq(x, y) ==
    IF x[4] # y[4] THEN x[4] > y[4]
    ELSE IF x[3] # y[3] THEN x[3] > y[3]
    ELSE IF x[2] # y[2] THEN x[2] > y[2]
    ELSE x[1] >= y[1]

\* x - y for x >= y
WSub(x, y) ==
    LET s1 == x[1] - y[1]
        b1 == IF s1 < 0 THEN 1 ELSE 0
        s2 == x[2] - y[2] - b1
        b2 == IF s2 < 0 THEN 1 ELSE 0
        s3 == x[3] - y[3] - b2
        b3 == IF s3 < 0 THEN 1 ELSE 0
    IN  << s1 + b1 * LimbBase, s2 + b2 * LimbBase, s3 + b3 * LimbBase,
           x[4] - y[4] - b3 >>

WZero == <<0, 0, 0, 0>>

\* the wide integer c * 2^s, for 1 <= c < 2^15 and c * 2^s < 2^53
WShifted(c, s) ==
    LET q == s \div 14
        v == c * 2^(s % 14)
    IN  [i \in 1..4 |-> IF i = q + 1 THEN v % LimbBase
                        ELSE IF i = q + 2 THEN v \div LimbBase
                        ELSE 0]

RECURSIVE WDivChunk(_, _, _, _)
\* n more quotient bits of r/d (r < d) shifted into q, and the remainder
WDivChunk(r, d, n, q) ==
    IF n = 0 THEN <<r, q>>
    ELSE LET r2 == WDouble(r)
         IN  IF WGeq(r2, d)
             THEN WDivChunk(WSub(r2, d), d, n - 1, 2 * q + 1)
             ELSE WDivChunk(r2, d, n - 1, 2 * q)

\* the float c / x for an integer 1 <= c < 2^15 and a float x > 0
FIntDiv(c, x) ==
    LET d == x.m
        s0 == 53 - BitLen(c)
        n0 == WShifted(c, s0)
        fits == WGeq(n0, d)
        s == IF fits THEN s0 ELSE s0 + 1
        n == IF fits THEN n0 ELSE WDouble(n0)
        c4 == WDivChunk(WSub(n, d), d, 10, 1)
        c3 == WDivChunk(c4[1], d, 14, 0)
        c2 == WDivChunk(c3[1], d, 14, 0)
        c1 == WDivChunk(c2[1], d, 14, 0)
        r2 == WDouble(c1[1])
        guard == IF WGeq(r2, d) THEN 1 ELSE 0
        sticky == (IF guard = 1 THEN WSub(r2, d) ELSE r2) # WZero
    IN  RoundMant(<<c1[2], c2[2], c3[2], c4[2]>>, 52 - x.e - s, guard, sticky)

(***************************************************************************)
(* Strings are sequences of characters.                                    *)
(***************************************************************************)
UpperCase == <<"B", "E", "F", "G", "I", "J", "M", "N", "P", "T", "W">>
LowerCase == <<"b", "e", "f", "g", "i", "j", "m", "n", "p", "t", "w">>

\* str.lower() and str.upper(), character by character, on the letters that
\* occur in the extensions and format names of the model
lower(s) ==
    [i \in 1..Len(s) |->
        IF \E k \in 1..Len(UpperCase) : UpperCase[k] = s[i]
        THEN LowerCase[CHOOSE k \in 1..Len(UpperCase) : UpperCase[k] = s[i]]
        ELSE s[i]]

upper(s) ==
    [i \in 1..Len(s) |->
        IF \E k \in 1..Len(LowerCase) : LowerCase[k] = s[i]
        THEN UpperCase[CHOOSE k \in 1..Len(LowerCase) : LowerCase[k] = s[i]]
        ELSE s[i]]

\* '.' in s
HasDot(s) == \E i \in 1..Len(s) : s[i] = "."

\* s.rsplit('.', 1) for a string that holds a '.'
rsplit(s) ==
    LET d == CHOOSE i \in 1..Len(s) :
                 s[i] = "." /\ \A j \in (i + 1)..Len(s) : s[j] # "."
    IN  <<SubSeq(s, 1, d - 1), SubSeq(s, d + 1, Len(s))>>

DigitChars == <<"0", "1", "2", "3", "4", "5", "6", "7", "8", "9">>

RECURSIVE Decimal(_)
\* str(n) for n >= 0
Decimal(n) ==
    IF n < 10 THEN <<DigitChars[n + 1]>>
    ELSE Append(Decimal(n \div 10), DigitChars[(n % 10) + 1])

RECURSIVE ZeroPad(_, _)
\* zeros in front of s up to width w; s unchanged when already that long
ZeroPad(s, w) == IF Len(s) >= w THEN s ELSE ZeroPad(<<"0">> \o s, w)

\* padding to three digits instead of four
Format04d_Width3(index) == ZeroPad(Decimal(index), 3)

\* f"{index:04d}" for index >= 0
Format04d(index) == ZeroPad(Decimal(index), 4)

(***************************************************************************)
(* Exceptions: the type, the fixed text and the values the message embeds, *)
(* each with the name of the variable it comes from.                       *)
(***************************************************************************)
Exception(type, msg, args) == [type |-> type, msg |-> msg, args |-> args]

(***************************************************************************)
(* get_preset_dimensions                                                   *)
(***************************************************************************)
ResizePreset == {"SQUARE_1080", "HD_1080P", "PASSPORT", "CUSTOM"}

PRESET_DIMENSIONS ==
    [SQUARE_1080 |-> <<1080, 1080>>,
     HD_1080P |-> <<1920, 1080>>,
     PASSPORT |-> <<413, 531>>]

\* [ok, val] on return, [ok, exc] on raise
get_preset_dimensions(preset, custom_size) ==
    IF preset = "CUSTOM"
    THEN IF custom_size = None
         THEN [ok |-> FALSE,
               exc |-> Exception("ValueError",
                                 "Custom size must be provided for CUSTOM preset",
                                 <<>>)]
         ELSE [ok |-> TRUE, val |-> Val(custom_size)]
    ELSE [ok |-> TRUE, val |-> PRESET_DIMENSIONS[preset]]

(***************************************************************************)
(* Pillow: Image.resize raises ValueError for a requested side below 1.    *)
(* Image.crop and Image.new accept empty sizes; resizing an empty image to *)
(* a non-empty size returns an image of the requested size.                *)
(***************************************************************************)
PIL_resize(size) ==
    IF size[1] < 1 \/ size[2] < 1
    THEN [ok |-> FALSE,
          exc |-> Exception("ValueError", "height and width must be > 0", <<>>)]
    ELSE [ok |-> TRUE, val |-> size]

(***************************************************************************)
(* resize_image, maintain_aspect branch: the scaled size and the offsets   *)
(***************************************************************************)
FitRatio(original, target) ==
    FMin(FDiv(target[1], original[1]), FDiv(target[2], original[2]))

FitNewSize(original, target) ==
    LET ratio == FitRatio(original, target)
    IN  <<Trunc(FMulInt(original[1], ratio)), Trunc(FMulInt(original[2], ratio))>>

\* a paste offset that is the whole padding, not half of it
FitPaste_NotHalved(target, new_size) ==
    <<target[1] - new_size[1], target[2] - new_size[2]>>

FitPaste(target, new_size) ==
    <<(target[1] - new_size[1]) \div 2, (target[2] - new_size[2]) \div 2>>

(***************************************************************************)
(* crop_to_aspect: the crop box <<left, upper, right, lower>>              *)
(***************************************************************************)
CropBox(original, target) ==
    LET target_ratio == FDiv(target[1], target[2])
        original_ratio == FDiv(original[1], original[2])
    IN  IF FLess(target_ratio, original_ratio)
        THEN LET new_width == Trunc(FMulInt(original[2], target_ratio))
                 left == (original[1] - new_width) \div 2
             IN  <<left, 0, left + new_width, original[2]>>
        ELSE LET new_height == Trunc(FIntDiv(original[1], target_ratio))
                 top == (original[2] - new_height) \div 2
             IN  <<0, top, original[1], top + new_height>>

(***************************************************************************)
(* Colour modes.  An image is [mode, trans]: its Pillow mode and what has   *)
(* become of the region the source marks as transparent:                   *)
(*   "opaque"  the source has no transparent region                        *)
(*   "alpha"   the region is transparent through an alpha channel (RGBA,   *)
(*             LA) or the palette's alpha (P)                              *)
(*   "key"     the region is a colour key in info["transparency"] (a PNG   *)
(*             tRNS chunk on an L or RGB image); the pixels hold a colour  *)
(*   "white"   the region has been composited onto white                   *)
(*   "raw"     the region is opaque and shows the colour the pixels held   *)
(***************************************************************************)
Modes == {"RGB", "RGBA", "LA", "P", "L", "CMYK"}

\* the [mode, trans] pairs Image.open returns
Opened ==
    { [mode |-> m, trans |-> t] : m \in Modes, t \in {"opaque"} }
        \cup { [mode |-> m, trans |-> "alpha"] : m \in {"RGBA", "LA", "P"} }
        \cup { [mode |-> m, trans |-> "key"] : m \in {"RGB", "L"} }

\* 'A' in image.mode
HasA(mode) == mode \in {"RGBA", "LA"}

\* Image.convert('RGBA'): a palette's alpha and a colour key become the alpha
\* channel, everything else gets an opaque one
convert_RGBA(im) ==
    [mode |-> "RGBA",
     trans |-> IF im.trans = "key" THEN "alpha" ELSE im.trans]

\* Image.convert('RGB') of a mode other than P: an alpha channel is dropped
\* without compositing, a colour key is converted and kept in info
convert_RGB(im) ==
    CASE im.mode \in {"RGBA", "LA"} ->
            [mode |-> "RGB", trans |-> IF im.trans = "alpha" THEN "raw" ELSE im.trans]
      [] im.mode \in {"RGB", "L", "CMYK"} ->
            [mode |-> "RGB", trans |-> im.trans]

\* background = Image.new('RGB', image.size, (255, 255, 255));
\* background.paste(image, mask=image.split()[-1]); image = background
PasteOnWhite(im) ==
    [mode |-> "RGB", trans |-> IF im.trans = "alpha" THEN "white" ELSE im.trans]

\* resize_image, "Convert to RGB if necessary"
NormalizeResize(im) ==
    IF im.mode \in {"RGBA", "P", "LA"}
    THEN LET image == IF im.mode = "P" THEN convert_RGBA(im) ELSE im
         IN  IF HasA(image.mode) THEN PasteOnWhite(image) ELSE convert_RGB(image)
    ELSE IF im.mode # "RGB" THEN convert_RGB(im)
    ELSE im

\* process_image, crop_to_fit branch, "Handle transparency first"
NormalizeCrop(im) ==
    IF im.mode \in {"RGBA", "P", "LA"}
    THEN LET image == IF im.mode = "P" THEN convert_RGBA(im) ELSE im
         IN  IF HasA(image.mode) THEN PasteOnWhite(image) ELSE image
    ELSE IF im.mode # "RGB" THEN convert_RGB(im)
    ELSE im

\* result = Image.new('RGB', target, white); result.paste(resized, offset):
\* a new image has an empty info, so a colour key is lost
PasteOnCanvas(im) ==
    [mode |-> "RGB", trans |-> IF im.trans = "key" THEN "raw" ELSE im.trans]

(***************************************************************************)
(* convert_format and the format part of process_image                     *)
(***************************************************************************)
JPEG == <<"J", "P", "E", "G">>
JPG == <<"J", "P", "G">>
PNG == <<"P", "N", "G">>
WEBP == <<"W", "E", "B", "P">>
TIFF == <<"T", "I", "F", "F">>
BMP == <<"B", "M", "P">>

format_map ==
    [f \in {JPEG, JPG, PNG, WEBP} |->
        IF f = PNG THEN <<".", "p", "n", "g">>
        ELSE IF f = WEBP THEN <<".", "w", "e", "b", "p">>
        ELSE <<".", "j", "p", "g">>]

\* the formats Pillow registers an encoder for, among those the model names;
\* Image.save raises KeyError for any other format name
PIL_SAVE == {JPEG, PNG, WEBP, BMP, TIFF}

\* convert_format, "Handle mode conversion", for a target in format_map
convert_format(im, target_upper) ==
    LET needs == IF target_upper \in {PNG, WEBP} THEN "RGBA" ELSE "RGB"
    IN  IF needs = "RGB" /\ im.mode \in {"RGBA", "P", "LA"}
        THEN LET image == IF im.mode = "P" THEN convert_RGBA(im) ELSE im
             IN  IF HasA(image.mode) THEN PasteOnWhite(image) ELSE convert_RGB(image)
        ELSE IF needs = "RGBA" /\ im.mode \notin {"RGBA", "LA"}
        THEN IF im.mode \in {"P", "RGB"} THEN convert_RGBA(im) ELSE im
        ELSE im

\* process_image from "Determine output format" to its return: [ok, val] with
\* the encoded bytes and the extension, or [ok, exc].  The bytes are modelled
\* by what they were made from.
Encode(data, processed, im, filename, target_format, quality) ==
    LET orig_ext == IF HasDot(filename) THEN lower(rsplit(filename)[2])
                    ELSE <<"p", "n", "g">>
        extension == IF target_format # None THEN format_map[upper(Val(target_format))]
                     ELSE <<".">> \o orig_ext
        fmt == IF target_format # None THEN upper(Val(target_format))
               ELSE upper(orig_ext)
        save_format == IF fmt = JPG THEN JPEG ELSE fmt
        converted == IF target_format # None
                     THEN convert_format(im, upper(Val(target_format)))
                     ELSE im
        \* "Ensure correct mode for format"
        saved == IF save_format = JPEG /\ converted.mode # "RGB"
                 THEN convert_RGB(converted) ELSE converted
        bytes == [src |-> data, size |-> processed, format |-> save_format,
                  mode |-> saved.mode, trans |-> saved.trans,
                  quality |-> IF save_format \in {JPEG, WEBP} THEN Some(quality) ELSE None]
    IN  IF target_format # None /\ upper(Val(target_format)) \notin DOMAIN format_map
        THEN [ok |-> FALSE,
              exc |-> Exception("ValueError", "Unsupported format: ",
                                <<[what |-> "target_format", val |-> Val(target_format)]>>)]
        ELSE IF save_format \notin PIL_SAVE
        THEN [ok |-> FALSE,
              exc |-> Exception("KeyError", "",
                                <<[what |-> "save_format", val |-> save_format]>>)]
        ELSE [ok |-> TRUE, val |-> <<bytes, extension>>]

(***************************************************************************)
(* generate_filename                                                       *)
(***************************************************************************)
generate_filename(original_name, index, prefix, suffix, use_numbering, extension) ==
    LET base_name == IF HasDot(original_name) THEN rsplit(original_name)[1]
                     ELSE original_name
        orig_ext == IF HasDot(original_name)
                    THEN <<".">> \o rsplit(original_name)[2]
                    ELSE <<>>
        new_name == prefix \o base_name \o suffix
        numbered == IF use_numbering THEN new_name \o <<"_">> \o Format04d(index)
                    ELSE new_name
        final_ext == IF extension # None /\ Val(extension) # <<>> THEN Val(extension)
                     ELSE orig_ext
    IN  numbered \o final_ext

(***************************************************************************)
(* create_zip: ZipFile.writestr appends one entry per call, whatever names *)
(* the archive already holds.                                              *)
(***************************************************************************)
\* an archive keyed by name: a second entry of a name replaces the first
writestr_Overwrite(zip_file, filename, image_data) ==
    IF \E i \in 1..Len(zip_file) : zip_file[i].filename = filename
    THEN [i \in 1..Len(zip_file) |->
            IF zip_file[i].filename = filename
            THEN [filename |-> filename, data |-> image_data]
            ELSE zip_file[i]]
    ELSE Append(zip_file, [filename |-> filename, data |-> image_data])

writestr(zip_file, filename, image_data) ==
    Append(zip_file, [filename |-> filename, data |-> image_data])

RECURSIVE create_zip(_)
create_zip(processed_images) ==
    IF processed_images = <<>> THEN <<>>
    ELSE LET n == Len(processed_images)
         IN  writestr(create_zip(SubSeq(processed_images, 1, n - 1)),
                      processed_images[n][2], processed_images[n][1])

(***************************************************************************)
(* The program state: a call of batch_process from main (src/app.py), the  *)
(* call of process_image it is in, and what main does with the outcome.    *)
(***************************************************************************)
VARIABLES
    images,      \* the list of [data, name] handed to batch_process
    cfg,         \* the keyword arguments of batch_process
    pc,          \* where the call is
    idx,         \* enumerate's idx: the items completed so far
    image,       \* process_image: the opened image
    target,      \* process_image: (target_width, target_height)
    new_size,    \* resize_image: the scaled size of the Fit branch
    paste,       \* resize_image: (paste_x, paste_y)
    crop_box,    \* crop_to_aspect: the box handed to Image.crop
    processed,   \* the size of the transformed image
    pixels,      \* the colour mode and the transparency of the working image
    encoded,     \* process_image's return value: (bytes, extension)
    results,     \* batch_process: the list it builds
    events,      \* history: what was done, in order
    exc,         \* the exception that left batch_process
    zip_file,    \* main: the entries of the archive
    shown,       \* main: what st.error shows
    fn_args,     \* a call of generate_filename on its own: the arguments
    fn_result    \* and the string it returned

vars == <<images, cfg, pc, idx, image, target, new_size, paste, crop_box,
          processed, pixels, encoded, results, events, exc, zip_file, shown,
          fn_args, fn_result>>

locals == <<image, target, new_size, paste, crop_box, processed, pixels, encoded>>

Event(op, i) == [op |-> op, idx |-> i, total |-> Len(images)]

Junk == [kind |-> "junk"]
Img(size) == [kind |-> "image", size |-> size, mode |-> "RGB", trans |-> "opaque"]
ImgOf(size, im) ==
    [kind |-> "image", size |-> size, mode |-> im.mode, trans |-> im.trans]

total == Len(images)
item == images[idx + 1]

Raise(e) == exc' = Some(e) /\ pc' = "raised"

\* for idx, img_dict in enumerate(images): process_image opens the image
Open ==
    /\ pc = "loop" /\ idx < total
    /\ events' = Append(events, Event("open", idx + 1))
    /\ IF item.data.kind = "junk"
       THEN /\ Raise(Exception("UnidentifiedImageError",
                               "cannot identify image file", <<>>))
            /\ image' = None
            /\ pixels' = None
       ELSE /\ image' = Some([size |-> item.data.size])
            /\ pixels' = Some([mode |-> item.data.mode, trans |-> item.data.trans])
            /\ pc' = "opened"
            /\ exc' = exc
    /\ target' = None /\ new_size' = None /\ paste' = None /\ crop_box' = None
    /\ processed' = None /\ encoded' = None
    /\ UNCHANGED <<images, cfg, idx, results, zip_file, shown, fn_args, fn_result>>

\* target_width, target_height = get_preset_dimensions(preset, custom_size)
Resolve ==
    /\ pc = "opened"
    /\ LET r == get_preset_dimensions(cfg.preset, cfg.custom_size)
       IN  IF r.ok THEN target' = Some(r.val) /\ pc' = "resolved" /\ exc' = exc
           ELSE Raise(r.exc) /\ target' = target
    /\ events' = Append(events, Event("resolve", idx + 1))
    /\ UNCHANGED <<images, cfg, idx, image, new_size, paste, crop_box, processed, pixels,
                   encoded, results, zip_file, shown, fn_args, fn_result>>

\* crop_to_fit: crop_to_aspect(image, target_width, target_height)
CropToAspect ==
    /\ pc = "resolved" /\ cfg.crop_to_fit
    /\ events' = Append(events, Event("transform", idx + 1))
    /\ pixels' = Some(NormalizeCrop(Val(pixels)))
    /\ IF Val(target)[2] = 0
       THEN /\ Raise(Exception("ZeroDivisionError", "division by zero", <<>>))
            /\ UNCHANGED <<crop_box, processed>>
       ELSE /\ crop_box' = Some(CropBox(Val(image).size, Val(target)))
            /\ LET r == PIL_resize(Val(target))
               IN  IF r.ok THEN processed' = Some(r.val) /\ pc' = "resized" /\ exc' = exc
                   ELSE Raise(r.exc) /\ processed' = processed
    /\ UNCHANGED <<images, cfg, idx, image, target, new_size, paste, encoded,
                   results, zip_file, shown, fn_args, fn_result>>

\* resize_image with maintain_aspect: scale, then paste centred on a canvas
ResizeFit ==
    /\ pc = "resolved" /\ ~cfg.crop_to_fit /\ cfg.maintain_aspect
    /\ events' = Append(events, Event("transform", idx + 1))
    /\ new_size' = Some(FitNewSize(Val(image).size, Val(target)))
    /\ LET r == PIL_resize(Val(new_size'))
       IN  IF r.ok
           THEN /\ paste' = Some(FitPaste(Val(target), Val(new_size')))
                /\ processed' = target
                /\ pixels' = Some(PasteOnCanvas(NormalizeResize(Val(pixels))))
                /\ pc' = "resized" /\ exc' = exc
           ELSE /\ Raise(r.exc)
                /\ pixels' = Some(NormalizeResize(Val(pixels)))
                /\ UNCHANGED <<paste, processed>>
    /\ UNCHANGED <<images, cfg, idx, image, target, crop_box, encoded, results,
                   zip_file, shown, fn_args, fn_result>>

\* resize_image without maintain_aspect: stretch to the target
ResizeStretch ==
    /\ pc = "resolved" /\ ~cfg.crop_to_fit /\ ~cfg.maintain_aspect
    /\ events' = Append(events, Event("transform", idx + 1))
    /\ pixels' = Some(NormalizeResize(Val(pixels)))
    /\ LET r == PIL_resize(Val(target))
       IN  IF r.ok THEN processed' = Some(r.val) /\ pc' = "resized" /\ exc' = exc
           ELSE Raise(r.exc) /\ processed' = processed
    /\ UNCHANGED <<images, cfg, idx, image, target, new_size, paste, crop_box,
                   encoded, results, zip_file, shown, fn_args, fn_result>>

\* the rest of process_image: convert_format, save
EncodeStep ==
    /\ pc = "resized"
    /\ events' = Append(events, Event("encode", idx + 1))
    /\ LET r == Encode(item.data, Val(processed), Val(pixels), item.name,
                        cfg.target_format, cfg.quality)
       IN  IF r.ok THEN encoded' = Some(r.val) /\ pc' = "encoded" /\ exc' = exc
           ELSE Raise(r.exc) /\ encoded' = encoded
    /\ UNCHANGED <<images, cfg, idx, image, target, new_size, paste, crop_box,
                   processed, pixels, results, zip_file, shown, fn_args, fn_result>>

\* new_filename = generate_filename(...); results.append(...)
AppendResult ==
    /\ pc = "encoded"
    /\ results' = Append(results,
                         <<Val(encoded)[1],
                           generate_filename(item.name, idx + 1, cfg.prefix, cfg.suffix,
                                             cfg.use_numbering, Some(Val(encoded)[2]))>>)
    /\ events' = Append(events, Event("append", idx + 1))
    /\ pc' = "appended"
    /\ UNCHANGED <<images, cfg, idx, locals, exc, zip_file, shown, fn_args, fn_result>>

\* a notifier called with the 0-based idx
Notify_ZeroBased ==
    /\ pc = "appended"
    /\ events' = IF cfg.progress_callback
                 THEN Append(events, Event("notify", idx))
                 ELSE events
    /\ idx' = idx + 1
    /\ pc' = "loop"
    /\ UNCHANGED <<images, cfg, locals, results, exc, zip_file, shown, fn_args, fn_result>>

\* if progress_callback: progress_callback(idx + 1, total); next iteration
Notify ==
    /\ pc = "appended"
    /\ events' = IF cfg.progress_callback
                 THEN Append(events, Event("notify", idx + 1))
                 ELSE events
    /\ idx' = idx + 1
    /\ pc' = "loop"
    /\ UNCHANGED <<images, cfg, locals, results, exc, zip_file, shown, fn_args, fn_result>>

\* return results
Return ==
    /\ pc = "loop" /\ idx = total
    /\ pc' = "returned"
    /\ UNCHANGED <<images, cfg, idx, locals, results, events, exc, zip_file, shown,
                   fn_args, fn_result>>

\* main: zip_bytes = create_zip(processed)
CreateZip ==
    /\ pc = "returned"
    /\ zip_file' = Some(create_zip(results))
    /\ pc' = "zipped"
    /\ UNCHANGED <<images, cfg, idx, locals, results, events, exc, shown,
                   fn_args, fn_result>>

\* main: except Exception as e: st.error(f"Processing failed: {str(e)}")
MainExcept ==
    /\ pc = "raised"
    /\ shown' = Some([msg |-> Val(exc).msg, args |-> Val(exc).args])
    /\ pc' = "reported"
    /\ UNCHANGED <<images, cfg, idx, locals, results, events, exc, zip_file,
                   fn_args, fn_result>>

Next ==
    \/ Open
    \/ Resolve
    \/ CropToAspect
    \/ ResizeFit
    \/ ResizeStretch
    \/ EncodeStep
    \/ AppendResult
    \/ Notify
    \/ Return
    \/ CreateZip
    \/ MainExcept

\* generate_filename called on its own
GenerateFilename ==
    /\ fn_args # None /\ fn_result = None
    /\ fn_result' = Some(generate_filename(Val(fn_args).original_name,
                                           Val(fn_args).index, Val(fn_args).prefix,
                                           Val(fn_args).suffix,
                                           Val(fn_args).use_numbering,
                                           Val(fn_args).extension))
    /\ UNCHANGED <<images, cfg, pc, idx, locals, results, events, exc, zip_file,
                   shown, fn_args>>

NextName == GenerateFilename

(***************************************************************************)
(* Inputs                                                                  *)
(***************************************************************************)
out_ == <<"o", "u", "t", "_">>
v1 == <<"_", "v", "1">>
img_bmp == <<"i", "m", "g", ".", "b", "m", "p">>
img_png == <<"i", "m", "g", ".", "p", "n", "g">>
x_png == <<"x", ".", "p", "n", "g">>
t_tif == <<"t", ".", "t", "i", "f">>
photo_png == <<"p", "h", "o", "t", "o", ".", "p", "n", "g">>
a_tar_gz == <<"a", ".", "t", "a", "r", ".", "g", "z">>
noext == <<"n", "o", "e", "x", "t">>
hidden == <<".", "h">>
trailing == <<"t", ".">>
dot_png == <<".", "p", "n", "g">>
dot_jpg == <<".", "j", "p", "g">>

DefaultCfg ==
    [preset |-> "SQUARE_1080", custom_size |-> None, target_format |-> None,
     maintain_aspect |-> TRUE, crop_to_fit |-> FALSE, quality |-> 95,
     prefix |-> out_, suffix |-> <<>>, use_numbering |-> FALSE,
     progress_callback |-> TRUE]

\* the three resize modes of the sidebar, and crop_to_fit overriding
\* maintain_aspect
Strategies == BOOLEAN \X BOOLEAN

SpecialDims == {47, 535, 1000, 2000}
SrcDims == (1..MaxSrc) \cup SpecialDims

CustomSizes == {None} \cup {Some(c) : c \in (0..MaxCustom) \X (0..MaxCustom)}

PresetChoices ==
    {<<p, None>> : p \in ResizePreset \ {"CUSTOM"}}
        \cup {<<"CUSTOM", c>> : c \in CustomSizes}

BatchItems ==
    { [data |-> Img(<<4, 3>>), name |-> img_bmp],
      [data |-> Img(<<2, 2>>), name |-> img_png],
      [data |-> Img(<<1, 3>>), name |-> t_tif],
      [data |-> Junk, name |-> x_png] }

BatchLists == UNION {[1..n -> BatchItems] : n \in 0..MaxBatch}

BatchCfgs ==
    { [DefaultCfg EXCEPT !.preset = p[1], !.custom_size = p[2],
                         !.target_format = f, !.progress_callback = cb] :
        p \in {<<"SQUARE_1080", None>>, <<"CUSTOM", None>>,
               <<"CUSTOM", Some(<<1, 1>>)>>, <<"CUSTOM", Some(<<0, 2>>)>>},
        f \in {None, Some(PNG), Some(TIFF)}, cb \in BOOLEAN }
    \cup
    { [DefaultCfg EXCEPT !.maintain_aspect = s[1], !.crop_to_fit = s[2],
                         !.use_numbering = n, !.quality = q, !.target_format = f] :
        s \in Strategies, n \in BOOLEAN, q \in {0, 95}, f \in {None, Some(PNG)} }

Idle ==
    /\ image = None /\ target = None /\ new_size = None /\ paste = None
    /\ crop_box = None /\ processed = None /\ pixels = None /\ encoded = None
    /\ results = <<>> /\ events = <<>> /\ exc = None
    /\ zip_file = None /\ shown = None
    /\ idx = 0

\* batches of a few kinds of item under a few configurations
Init ==
    /\ images \in BatchLists
    /\ cfg \in BatchCfgs
    /\ pc = "loop"
    /\ Idle
    /\ fn_args = None /\ fn_result = None

Spec == Init /\ [][Next]_vars

\* one image of every size under every target and strategy
InitGeom ==
    /\ images \in { <<[data |-> Img(<<w, h>>), name |-> photo_png]>> :
                        w \in SrcDims, h \in SrcDims }
    /\ cfg \in { [DefaultCfg EXCEPT !.preset = p[1], !.custom_size = p[2],
                                    !.maintain_aspect = s[1], !.crop_to_fit = s[2]] :
                    p \in PresetChoices, s \in Strategies }
    /\ pc = "loop"
    /\ Idle
    /\ fn_args = None /\ fn_result = None

SpecGeom == InitGeom /\ [][Next]_vars

a_jpg == <<"a", ".", "j", "p", "g">>
b_JPEG == <<"b", ".", "J", "P", "E", "G">>
jpeg_lower == <<"j", "p", "e", "g">>
Jpg_mixed == <<"J", "p", "g">>

\* one image of every colour mode, with and without a transparent region,
\* under every strategy, target format and kind of original name
InitMode ==
    /\ images \in { <<[data |-> ImgOf(<<3, 2>>, im), name |-> n]>> :
                        im \in Opened, n \in {photo_png, a_jpg, b_JPEG} }
                  \cup { <<[data |-> Junk, name |-> x_png]>> }
    /\ cfg \in { [DefaultCfg EXCEPT !.preset = "CUSTOM", !.custom_size = Some(<<2, 2>>),
                                    !.maintain_aspect = s[1], !.crop_to_fit = s[2],
                                    !.target_format = f] :
                    s \in Strategies,
                    f \in {None, Some(JPEG), Some(JPG), Some(jpeg_lower),
                           Some(Jpg_mixed), Some(PNG), Some(WEBP)} }
    /\ pc = "loop"
    /\ Idle
    /\ fn_args = None /\ fn_result = None

SpecMode == InitMode /\ [][Next]_vars

SpecialIndex == {3, 12, 345, 9999, 10000}

\* generate_filename on names with no, one, several, a leading and a trailing '.'
InitName ==
    /\ fn_args \in { Some(a) :
                      a \in [original_name : {img_bmp, a_tar_gz, noext, hidden, trailing},
                             index : (1..MaxIndex) \cup SpecialIndex,
                             prefix : {<<>>, out_},
                             suffix : {<<>>, v1},
                             use_numbering : BOOLEAN,
                             extension : {None, Some(<<>>), Some(dot_png),
                                          Some(dot_jpg)}] }
    /\ fn_result = None
    /\ images = <<>> /\ cfg = DefaultCfg /\ pc = "idle"
    /\ Idle

SpecName == InitName /\ [][NextName]_vars

(***************************************************************************)
(* Properties                                                              *)
(***************************************************************************)
Done(op) == \E j \in 1..Len(events) : events[j].op = op
LastOp == IF events = <<>> THEN "" ELSE events[Len(events)].op
Failed == pc \in {"raised", "reported"}
Positive(size) == size[1] > 0 /\ size[2] > 0
src == images[1].data.size

IsFit == cfg.maintain_aspect /\ ~cfg.crop_to_fit
IsCover == cfg.crop_to_fit
IsStretch == ~cfg.maintain_aspect /\ ~cfg.crop_to_fit

\* C1: once the target is resolved (both sides positive), the geometry step of
\* each strategy completes and the transformed image has exactly the target's
\* dimensions.
C1_ExactTargetDims ==
    (target # None /\ Positive(Val(target)) /\ Done("transform"))
        => (~(Failed /\ LastOp = "transform") /\ processed = target)

\* C2: get_preset_dimensions returns (1080,1080), (1920,1080), (413,531) for the
\* fixed presets; for Custom it returns the supplied pair when both sides are
\* positive and fails otherwise; so every pair it returns is positive.
C2_ResolverContract ==
    LastOp = "resolve" =>
        IF cfg.preset = "CUSTOM"
        THEN IF cfg.custom_size # None /\ Positive(Val(cfg.custom_size))
             THEN pc = "resolved" /\ target = cfg.custom_size
             ELSE Failed /\ Val(exc).type = "ValueError"
        ELSE /\ pc = "resolved"
             /\ cfg.preset = "SQUARE_1080" => target = Some(<<1080, 1080>>)
             /\ cfg.preset = "HD_1080P" => target = Some(<<1920, 1080>>)
             /\ cfg.preset = "PASSPORT" => target = Some(<<413, 531>>)

Abs(n) == IF n < 0 THEN -n ELSE n

Scenario2000x1000 ==
    /\ Len(images) = 1 /\ src = <<2000, 1000>>
    /\ cfg.preset = "SQUARE_1080" /\ IsFit
    /\ Done("transform")

\* the padding bands of the Fit canvas: left, top, right, bottom
Bands ==
    LET t == Val(target)
        n == Val(new_size)
        o == Val(paste)
    IN  [left |-> o[1], top |-> o[2],
         right |-> t[1] - o[1] - n[1], bottom |-> t[2] - o[2] - n[2]]

\* C8 (as amended): an opaque 2000x1000 source with preset Square and strategy
\* Fit gives a 1080x1080 output whose content spans the full width of 1080 and
\* whose white bands at the top and at the bottom are each 270px thick.
C8_Scenario270 ==
    Scenario2000x1000 =>
        /\ ~Failed
        /\ processed = Some(<<1080, 1080>>)
        /\ Val(new_size)[1] = 1080 /\ Bands.left = 0 /\ Bands.right = 0
        /\ Bands.top = 270 /\ Bands.bottom = 270

C8_Witness == Scenario2000x1000 /\ pc = "resized" /\ Val(new_size) = <<1080, 540>>

\* C8 as stated: the same scenario with bands of 135px at the top and bottom
C8_Original135 ==
    Scenario2000x1000 =>
        /\ ~Failed
        /\ processed = Some(<<1080, 1080>>)
        /\ Val(new_size)[1] = 1080 /\ Bands.left = 0 /\ Bands.right = 0
        /\ Bands.top = 135 /\ Bands.bottom = 135

\* C9: in the Fit strategy the scaled image is at least 1px and at most the
\* target on both axes and equals the target on at least one axis, so padding
\* is on at most one axis (left/right only when the source is narrower than the
\* target aspect), and the two bands of an axis differ by at most 1px.
C9_FitScaledSize ==
    (new_size # None /\ Positive(Val(target))) =>
        LET t == Val(target)
            n == Val(new_size)
            x == (t[1] - n[1]) \div 2
            y == (t[2] - n[2]) \div 2
        IN  /\ n[1] >= 1 /\ n[2] >= 1
            /\ n[1] <= t[1] /\ n[2] <= t[2]
            /\ n[1] = t[1] \/ n[2] = t[2]
            /\ src[1] * t[2] < src[2] * t[1] => n[2] = t[2]
            /\ Abs((t[1] - n[1] - x) - x) <= 1
            /\ Abs((t[2] - n[2] - y) - y) <= 1

\* C10: in the Cover strategy the crop box lies inside the source, is at least
\* 1px wide and high, keeps the full height when the source is relatively wider
\* than the target and the full width otherwise, and is centred within 1px.
C10_CropBox ==
    (crop_box # None /\ Positive(Val(target))) =>
        LET t == Val(target)
            b == Val(crop_box)
        IN  /\ 0 <= b[1] /\ b[1] <= b[3] /\ b[3] <= src[1]
            /\ 0 <= b[2] /\ b[2] <= b[4] /\ b[4] <= src[2]
            /\ b[3] - b[1] >= 1 /\ b[4] - b[2] >= 1
            /\ IF src[1] * t[2] > src[2] * t[1]
               THEN b[2] = 0 /\ b[4] = src[2]
               ELSE b[1] = 0 /\ b[3] = src[1]
            /\ Abs(b[1] - (src[1] - b[3])) <= 1
            /\ Abs(b[2] - (src[2] - b[4])) <= 1

Terminal == pc \in {"returned", "zipped", "raised", "reported"}

ConfigInvalid ==
    \/ cfg.preset = "CUSTOM"
         /\ (cfg.custom_size = None \/ ~Positive(Val(cfg.custom_size)))
    \/ cfg.quality \notin 1..100

\* C3: with an invalid configuration (Custom without a size, a non-positive
\* custom side, quality outside 1..100) the batch fails with the configuration
\* error before any item is opened, transformed, encoded or notified, whatever
\* the item list.
C3_EagerValidation ==
    ConfigInvalid =>
        /\ \A j \in 1..Len(events) :
              events[j].op \notin {"open", "transform", "encode", "notify"}
        /\ Terminal =>
              /\ Failed
              /\ Val(exc).msg = "Custom size must be provided for CUSTOM preset"

ItemOps == <<"open", "resolve", "transform", "encode", "append", "notify">>

\* the number of steps of the item in progress that a state has behind it
StepsAllowed ==
    CASE pc = "loop" -> {0}
      [] pc = "opened" -> {1}
      [] pc = "resolved" -> {2}
      [] pc = "resized" -> {3}
      [] pc = "encoded" -> {4}
      [] pc = "appended" -> {5}
      [] pc \in {"returned", "zipped"} -> {0}
      [] OTHER -> 1..4

\* C4: with a notifier, the events of a batch of n items are process(1),
\* notify(1,n), ..., process(n), notify(n,n) in this order: every item is
\* processed and appended before the next is opened, the notifier is called once
\* after each completed item with (completed so far, n), and a failure at item k
\* ends the sequence after k-1 notifications with nothing done for items k+1..n.
C4_EventOrder ==
    cfg.progress_callback =>
        \E p \in StepsAllowed :
            /\ Len(events) = 6 * idx + p
            /\ \A j \in 1..Len(events) :
                  events[j] = [op |-> ItemOps[((j - 1) % 6) + 1],
                               idx |-> ((j - 1) \div 6) + 1,
                               total |-> Len(images)]
            /\ Len(results) = idx + (IF p = 5 THEN 1 ELSE 0)
            /\ pc \in {"returned", "zipped"} => idx = Len(images)
            /\ Failed => idx < Len(images)

C4_Witness ==
    /\ cfg.progress_callback /\ Failed
    /\ Len(images) = 3 /\ idx = 1
    /\ Len(events) > 6 /\ events[6].op = "notify"

\* C5: when item k fails (undecodable, unsupported format, encoder failure) the
\* caller gets no result list, and the error that reaches it names the item's
\* index k and its original filename.
C5_ErrorNamesItem ==
    (Failed /\ LastOp \in {"open", "encode"}) =>
        /\ zip_file = None
        /\ \E j \in 1..Len(Val(exc).args) :
              Val(exc).args[j].what = "index" /\ Val(exc).args[j].val = idx + 1
        /\ \E j \in 1..Len(Val(exc).args) :
              Val(exc).args[j].what = "name" /\ Val(exc).args[j].val = item.name

\* the extension process_image returns for item i
ExtensionOf(i) ==
    Encode(images[i].data, <<1, 1>>, [mode |-> "RGB", trans |-> "opaque"],
           images[i].name, cfg.target_format, cfg.quality).val[2]

\* C6: a successful batch of n items returns n pairs, the i-th made from the
\* i-th input and named by generate_filename with index i; the archive built
\* from them has n entries in the same order under the same names, also when
\* two names are equal.
C6_OrderAndCount ==
    /\ pc \in {"returned", "zipped"} =>
          /\ Len(results) = Len(images)
          /\ \A i \in 1..Len(images) :
                /\ results[i][1].src = images[i].data
                /\ results[i][2] =
                      generate_filename(images[i].name, i, cfg.prefix, cfg.suffix,
                                        cfg.use_numbering, Some(ExtensionOf(i)))
    /\ pc = "zipped" =>
          /\ Len(Val(zip_file)) = Len(results)
          /\ \A i \in 1..Len(results) :
                /\ Val(zip_file)[i].filename = results[i][2]
                /\ Val(zip_file)[i].data = results[i][1]

C6_Witness ==
    /\ pc = "zipped" /\ Len(images) = 3
    /\ images[1] # images[2]
    /\ results[1][2] = results[2][2]
    /\ Len(Val(zip_file)) = 3

IsDigit(c) == \E k \in 1..10 : DigitChars[k] = c

RECURSIVE ParseDecimal(_)
ParseDecimal(d) ==
    IF d = <<>> THEN 0
    ELSE 10 * ParseDecimal(SubSeq(d, 1, Len(d) - 1))
            + (CHOOSE k \in 0..9 : DigitChars[k + 1] = d[Len(d)])

ExampleArgs ==
    [original_name |-> img_bmp, index |-> 3, prefix |-> out_, suffix |-> <<>>,
     use_numbering |-> TRUE, extension |-> Some(dot_png)]

\* C7: generate_filename returns prefix + base + suffix + ("_" + the index in
\* decimal, zero-padded to 4 digits, when numbering is on) + final extension;
\* base is the name up to its last '.', the final extension is the supplied
\* one, or the original one (from the last '.') when none (None or an empty
\* string) is supplied; "out_", numbering, 3, "img.bmp", ".png" gives
\* "out_img_0003.png".
C7_Filename ==
    fn_result # None =>
        LET a == Val(fn_args)
            r == Val(fn_result)
            n == a.original_name
        IN  /\ \E k \in 0..Len(n) :
                  LET base == SubSeq(n, 1, k)
                      rest == SubSeq(n, k + 1, Len(n))
                      final == IF a.extension = None \/ Val(a.extension) = <<>>
                               THEN rest ELSE Val(a.extension)
                      head == a.prefix \o base \o a.suffix
                      d == SubSeq(r, Len(head) + 2, Len(r) - Len(final))
                  IN  /\ IF rest = <<>> THEN \A i \in 1..Len(n) : n[i] # "."
                         ELSE rest[1] = "." /\ \A i \in 2..Len(rest) : rest[i] # "."
                      /\ IF a.use_numbering
                         THEN /\ r = head \o <<"_">> \o d \o final
                              /\ \A i \in 1..Len(d) : IsDigit(d[i])
                              /\ ParseDecimal(d) = a.index
                              /\ Len(d) >= 4
                              /\ Len(d) > 4 => d[1] # "0"
                         ELSE r = head \o final
            /\ a = ExampleArgs =>
                  r = <<"o", "u", "t", "_", "i", "m", "g", "_", "0", "0", "0", "3",
                        ".", "p", "n", "g">>

C7_Witness ==
    /\ fn_args = Some(ExampleArgs)
    /\ fn_result = Some(out_ \o <<"i", "m", "g", "_", "0", "0", "0", "3">> \o dot_png)

\* the source image of the single-item runs, and what the encoder was handed
source == images[1].data
handed == Val(encoded)[1]

SourceTransparent == source.trans \in {"alpha", "key"}

\* C11: whenever an item is encoded as JPEG (target JPEG or JPG in any letter
\* case, or no target and a name ending in .jpg/.jpeg), for every source mode
\* and strategy, the image handed to the encoder is RGB with no alpha and any
\* transparent region of the source has been composited onto white.
C11_JpegOpaqueOnWhite ==
    (pc = "encoded" /\ handed.format = JPEG) =>
        /\ handed.mode = "RGB"
        /\ SourceTransparent => handed.trans = "white"

\* C12: when the target format is PNG or WEBP and the source carries
\* transparency in mode RGBA, LA or P, every strategy produces a 4-channel
\* output in which the transparent region is still transparent.
C12_AlphaPreserved ==
    ( /\ pc = "encoded"
      /\ cfg.target_format \in {Some(PNG), Some(WEBP)}
      /\ source.mode \in {"RGBA", "LA", "P"} /\ source.trans = "alpha" ) =>
        /\ handed.mode = "RGBA"
        /\ handed.trans = "alpha"

====
